---- MODULE Spec2Model ----
(***************************************************************************)
(* Model of windenergytk/aerodyn.py: the blade-element-momentum sweep      *)
(* linear_rotor_analysis and the kernels it calls (q_terms,                *)
(* calc_attack_angle, calc_axial_factor, calc_angular_factor, tip_loss,    *)
(* rotor_coefs).                                                           *)
(*                                                                         *)
(* Numbers.  The code computes in IEEE floating point.  Here a number is a *)
(* record [k, s, m]: k is "fin", "inf" or "nan", s the sign (1 or -1, so   *)
(* that -0.0 exists as in IEEE) and m the magnitude in units of 1/SCALE.   *)
(* Finite results beyond MaxFix overflow to infinity, results below        *)
(* 1/SCALE underflow to a signed zero, as floats do at their own range.    *)
(* sin, cos, exp, arctan and sqrt are evaluated by range reduction and     *)
(* series in this arithmetic, to about three decimal places.               *)
(*                                                                         *)
(* The module is Python 2 (it ends in a print statement), so the `/` of two*)
(* ints is floor division.  The name `numpy` is taken to be bound to the   *)
(* numpy package wherever the kernels use it.                              *)
(***************************************************************************)
EXTENDS Integers, Sequences, FiniteSets, TLC

\* Units per 1.0 of the fixed-point magnitude (resolution of a number).
SCALE == 1000

\* Largest finite magnitude; anything larger is an infinity.
MaxFix == 1000000000

----------------------------------------------------------------------------
\* Evaluation order.  Python evaluates an expression once and binds the value
\* to a name.  The({ e : x \in {a}, y \in {b} }) is the value of e with x and
\* y bound to the values of a and b, each evaluated once.

The(S) == CHOOSE r \in S : TRUE

----------------------------------------------------------------------------
\* Number construction

NaN == [k |-> "nan", s |-> 1, m |-> 0]

Inf(sgn) == [k |-> "inf", s |-> sgn, m |-> 0]

Mag(sgn, mag) ==
    The({ IF mg > MaxFix THEN Inf(sg) ELSE [k |-> "fin", s |-> sg, m |-> mg]
        : sg \in {sgn}, mg \in {mag} })

\* The number n/SCALE, n a signed integer.
Fx(n) == The({ IF i < 0 THEN Mag(-1, -i) ELSE Mag(1, i) : i \in {n} })

\* The number n, n a signed integer (a Python int used in float arithmetic).
FInt(n) == Fx(n * SCALE)

IsNaN(a) == a.k = "nan"

IsInf(a) == a.k = "inf"

IsFin(a) == a.k = "fin"

IsZero(a) == a.k = "fin" /\ a.m = 0

\* Signed integer value of a finite number, in units of 1/SCALE.
Val(a) == a.s * a.m

----------------------------------------------------------------------------
\* Arithmetic (IEEE rules for nan, infinities and signed zeros)

FNeg(a) == The({ IF IsNaN(x) THEN NaN ELSE [x EXCEPT !.s = -x.s]
        : x \in {a} })

FAbs(a) == The({ IF IsNaN(x) THEN NaN ELSE [x EXCEPT !.s = 1]
        : x \in {a} })

FAdd(a, b) ==
    The({ IF IsNaN(x) \/ IsNaN(y) THEN NaN
        ELSE IF IsInf(x) /\ IsInf(y) THEN (IF x.s = y.s THEN x ELSE NaN)
        ELSE IF IsInf(x) THEN x
        ELSE IF IsInf(y) THEN y
        ELSE IF Val(x) + Val(y) = 0
             THEN Mag(IF x.s = -1 /\ y.s = -1 THEN -1 ELSE 1, 0)
             ELSE Fx(Val(x) + Val(y))
        : x \in {a}, y \in {b} })

FSub(a, b) == FAdd(a, FNeg(b))

\* x*y/SCALE on magnitudes, without leaving 32 bits; -1 stands for overflow.
MulMag(x, y) ==
    LET xh == x \div SCALE
        xl == x % SCALE
        yh == y \div SCALE
        yl == y % SCALE
    IN IF yh + 1 > (MaxFix \div SCALE) \div (xh + 1)
       THEN -1
       ELSE xh * yh * SCALE + xh * yl + xl * yh + (xl * yl) \div SCALE

FMul(a, b) ==
    The({ IF IsNaN(x) \/ IsNaN(y) THEN NaN
        ELSE IF (IsInf(x) /\ IsZero(y)) \/ (IsZero(x) /\ IsInf(y)) THEN NaN
        ELSE IF IsInf(x) \/ IsInf(y) THEN Inf(x.s * y.s)
        ELSE IF MulMag(x.m, y.m) < 0 THEN Inf(x.s * y.s)
        ELSE Mag(x.s * y.s, MulMag(x.m, y.m))
        : x \in {a}, y \in {b} })

\* Fraction digits of rem/y, one decimal digit at a time (SCALE = 10^3).
RECURSIVE FracDigits(_, _, _)
FracDigits(rem, y, unit) ==
    The({ IF u = 0 THEN 0
        ELSE ((r * 10) \div d) * u + FracDigits((r * 10) % d, d, u \div 10)
        : r \in {rem}, d \in {y}, u \in {unit} })

\* x*SCALE/y on magnitudes, y > 0; -1 stands for overflow.
DivMag(x, y) ==
    IF y >= 100000000
    THEN x \div (y \div SCALE)
    ELSE IF x \div y > MaxFix \div SCALE
         THEN -1
         ELSE (x \div y) * SCALE + FracDigits(x % y, y, SCALE \div 10)

\* numpy division: a zero divisor yields an infinity or nan, never an error.
FDiv(a, b) ==
    The({ IF IsNaN(x) \/ IsNaN(y) THEN NaN
        ELSE IF IsInf(x) /\ IsInf(y) THEN NaN
        ELSE IF IsInf(x) THEN Inf(x.s * y.s)
        ELSE IF IsInf(y) THEN Mag(x.s * y.s, 0)
        ELSE IF IsZero(y) THEN (IF IsZero(x) THEN NaN ELSE Inf(x.s * y.s))
        ELSE IF DivMag(x.m, y.m) < 0 THEN Inf(x.s * y.s)
        ELSE Mag(x.s * y.s, DivMag(x.m, y.m))
        : x \in {a}, y \in {b} })

\* a > b as floats compare: false whenever either side is nan.
FGt(a, b) ==
    The({ IF IsNaN(x) \/ IsNaN(y) THEN FALSE
        ELSE IF IsInf(x) THEN x.s = 1 /\ ~(IsInf(y) /\ y.s = 1)
        ELSE IF IsInf(y) THEN y.s = -1
        ELSE Val(x) > Val(y)
        : x \in {a}, y \in {b} })

\* a <= b as floats compare: false whenever either side is nan.
FLe(a, b) == The({ ~IsNaN(x) /\ ~IsNaN(y) /\ ~FGt(x, y)
        : x \in {a}, y \in {b} })

\* Floor of the square root of n, 0 <= n < 2^31, by bisection on [lo, hi).
RECURSIVE ISqrtIn(_, _, _)
ISqrtIn(n, lo, hi) ==
    The({ IF h - l <= 1 THEN l
        ELSE IF ((l + h) \div 2) * ((l + h) \div 2) <= i
             THEN ISqrtIn(i, (l + h) \div 2, h)
             ELSE ISqrtIn(i, l, (l + h) \div 2)
        : i \in {n}, l \in {lo}, h \in {hi} })

ISqrt(n) == ISqrtIn(n, 0, 46341)

\* numpy.sqrt: nan for a negative argument.
FSqrt(a) ==
    The({ IF IsNaN(x) THEN NaN
        ELSE IF IsZero(x) THEN x
        ELSE IF x.s = -1 THEN NaN
        ELSE IF IsInf(x) THEN x
        ELSE IF x.m < 2000000 THEN Mag(1, ISqrt(x.m * SCALE))
        ELSE IF x.m < 200000000 THEN Mag(1, ISqrt(x.m * 10) * 10)
        ELSE Mag(1, ISqrt(x.m \div 10) * 100)
        : x \in {a} })

----------------------------------------------------------------------------
\* Elementary functions (numpy.sin, numpy.cos, numpy.tan, numpy.exp,
\* numpy.arctan), finite arguments in units of 1/SCALE

\* pi in units of 1/SCALE (math.pi, numpy.pi)
PiFx == 3142

HalfPiFx == PiFx \div 2

TwoPiFx == 2 * PiFx

\* Signed fixed-point product of small values (|x|, |y| < 4.0).
SMul(x, y) == (x * y) \div SCALE

\* x reduced to [-pi, pi].
ReduceAngle(x) == The({ IF r > PiFx THEN r - TwoPiFx ELSE r
        : r \in {x % TwoPiFx} })

\* The next term of a power series: term * x2 / d
NextTerm(term, x2, d) == SMul(term, x2) \div d

\* sin of x in [-pi/2, pi/2]: x - x^3/3! + x^5/5! - x^7/7! + x^9/9!
SinSeries(x) ==
    The({ The({ The({ The({ t1 - t3 + t5 - t7 + NextTerm(t7, x2, 72)
        : t7 \in {NextTerm(t5, x2, 42)} })
        : t5 \in {NextTerm(t3, x2, 20)} })
        : t3 \in {NextTerm(t1, x2, 6)} })
        : t1 \in {x}, x2 \in {SMul(x, x)} })

\* cos of x in [-pi/2, pi/2]: 1 - x^2/2! + x^4/4! - x^6/6! + x^8/8!
CosSeries(x) ==
    The({ The({ The({ The({ SCALE - t2 + t4 - t6 + NextTerm(t6, x2, 56)
        : t6 \in {NextTerm(t4, x2, 30)} })
        : t4 \in {NextTerm(t2, x2, 12)} })
        : t2 \in {x2 \div 2} })
        : x2 \in {SMul(x, x)} })

SinFx(x) ==
    The({ IF r > HalfPiFx THEN SinSeries(PiFx - r)
        ELSE IF r < -HalfPiFx THEN SinSeries(-PiFx - r)
        ELSE SinSeries(r)
        : r \in {ReduceAngle(x)} })

CosFx(x) ==
    The({ IF r > HalfPiFx THEN -CosSeries(PiFx - r)
        ELSE IF r < -HalfPiFx THEN -CosSeries(-PiFx - r)
        ELSE CosSeries(r)
        : r \in {ReduceAngle(x)} })

FSin(a) ==
    The({ IF IsNaN(x) \/ IsInf(x) THEN NaN
        ELSE IF IsZero(x) THEN x
        ELSE Fx(SinFx(Val(x)))
        : x \in {a} })

FCos(a) == The({ IF IsNaN(x) \/ IsInf(x) THEN NaN ELSE Fx(CosFx(Val(x)))
        : x \in {a} })

FTan(a) == The({ FDiv(FSin(x), FCos(x))
        : x \in {a} })

\* e in units of 1/SCALE
EFx == 2718

\* e^f for 0 <= f < 1: 1 + f + f^2/2! + ... + f^7/7!
ExpSeries(f) ==
    The({ The({ The({ The({ The({ SCALE + t1 + t2 + t3 + t4 + t5 + t6 + NextTerm(t6, t1, 7)
        : t6 \in {NextTerm(t5, t1, 6)} })
        : t5 \in {NextTerm(t4, t1, 5)} })
        : t4 \in {NextTerm(t3, t1, 4)} })
        : t3 \in {NextTerm(t2, t1, 3)} })
        : t1 \in {f}, t2 \in {NextTerm(f, f, 2)} })

\* e^n * y for an integer n >= 0
RECURSIVE ExpTimes(_, _)
ExpTimes(n, y) ==
    The({ IF i = 0 \/ ~IsFin(x) THEN x ELSE ExpTimes(i - 1, FMul(x, Fx(EFx)))
        : i \in {n}, x \in {y} })

\* e^(m/SCALE), m >= 0
ExpMag(m) ==
    IF m \div SCALE > 20 THEN Inf(1)
    ELSE ExpTimes(m \div SCALE, Fx(ExpSeries(m % SCALE)))

FExp(a) ==
    The({ IF IsNaN(x) THEN NaN
        ELSE IF IsInf(x) THEN (IF x.s = 1 THEN x ELSE Mag(1, 0))
        ELSE IF x.s = 1 THEN ExpMag(x.m)
        ELSE FDiv(FInt(1), ExpMag(x.m))
        : x \in {a} })

\* arctan of x, |x| <= tan(pi/8): x - x^3/3 + x^5/5 - x^7/7 + x^9/9
AtanSeries(x) ==
    The({ The({ The({ The({ p1 - p3 \div 3 + p5 \div 5 - p7 \div 7 + SMul(p7, x2) \div 9
        : p7 \in {SMul(p5, x2)} })
        : p5 \in {SMul(p3, x2)} })
        : p3 \in {SMul(p1, x2)} })
        : p1 \in {x}, x2 \in {SMul(x, x)} })

\* tan(pi/8) in units of 1/SCALE
TanPi8Fx == 414

\* arctan of x/SCALE for 0 <= x <= SCALE
AtanUnit(x) ==
    The({ IF v <= TanPi8Fx THEN AtanSeries(v)
        ELSE HalfPiFx \div 2 + AtanSeries(((v - SCALE) * SCALE) \div (v + SCALE))
        : v \in {x} })

\* arctan of a magnitude: pi/2 - arctan(1/x) above 1
AtanMag(m) ==
    IF m <= SCALE THEN AtanUnit(m)
    ELSE HalfPiFx - AtanUnit(DivMag(SCALE, m))

FArctan(a) ==
    The({ IF IsNaN(x) THEN NaN
        ELSE IF IsInf(x) THEN Mag(x.s, HalfPiFx)
        ELSE Mag(x.s, AtanMag(x.m))
        : x \in {a} })

----------------------------------------------------------------------------
\* Helper functions of aerodyn.py

\* x ** 2
Sq(x) == The({ FMul(v, v)
        : v \in {x} })

\* d1 of q_terms (line 63)
q_terms_d1(local_pitch_, local_tsr_) ==
    FSub(FCos(local_pitch_), FMul(local_tsr_, FSin(local_pitch_)))

\* d2 of q_terms (line 64)
q_terms_d2(local_pitch_, local_tsr_) ==
    FAdd(FSin(local_pitch_), FMul(local_tsr_, FCos(local_pitch_)))

\* q_terms: <<q1, q2, q3>> (lines 66-77); k is 4 * local_tsr / local_solidity
q_terms(local_pitch_, local_tsr_, lift_coef_slope_, lift_coef_intercept_, local_solidity_) ==
    The({ << FAdd(FMul(d1, lift_coef_slope_), FMul(FMul(k, c), d2)),
             FAdd(FMul(d2, lift_coef_slope_),
                  FSub(FMul(d1, lift_coef_intercept_),
                       FMul(k, FSub(FMul(d1, c), FMul(d2, sn))))),
             FSub(FMul(d2, lift_coef_intercept_), FMul(FMul(k, d1), sn)) >>
        : d1 \in {q_terms_d1(local_pitch_, local_tsr_)},
          d2 \in {q_terms_d2(local_pitch_, local_tsr_)},
          c \in {FCos(local_pitch_)},
          sn \in {FSin(local_pitch_)},
          k \in {FDiv(FMul(FInt(4), local_tsr_), local_solidity_)} })

\* calc_attack_angle: -(sqrt(q2**2 - 4*q1*q3) - q2) / (2*q1)
calc_attack_angle(q1_, q2_, q3_) ==
    The({ FDiv(FNeg(FSub(FSqrt(FSub(Sq(q2), FMul(FMul(FInt(4), q1), q3))), q2)),
             FMul(FInt(2), q1))
        : q1 \in {q1_}, q2 \in {q2_}, q3 \in {q3_} })

\* calc_axial_factor
calc_axial_factor(local_tip_loss_, lift_coefficient_, angle_of_rwind_, local_solidity_) ==
    FDiv(FInt(1),
         FAdd(FInt(1),
              FDiv(FMul(FMul(FInt(4), local_tip_loss_), Sq(FSin(angle_of_rwind_))),
                   FMul(FMul(local_solidity_, lift_coefficient_), FCos(angle_of_rwind_)))))

\* calc_angular_factor
calc_angular_factor(axial_induc_factor_, angle_of_rwind_, local_tsr_) ==
    FDiv(FMul(axial_induc_factor_, FTan(angle_of_rwind_)), local_tsr_)

\* tmp of tip_loss: exp(-(B / 2) * (1 - r) / (r * sin(phi))); B / 2 is the
\* floor division of two ints.
tip_loss_tmp(number_of_blades, fractional_radius, angle_of_rwind_) ==
    FExp(FDiv(FMul(FInt(-(number_of_blades \div 2)), FSub(FInt(1), fractional_radius)),
              FMul(fractional_radius, FSin(angle_of_rwind_))))

\* A variant of tip_loss_test without the test of 1 - tmp**2.
tip_loss_test_positive_only(tmp) == FGt(tmp, FInt(0))

\* The branch test of tip_loss: tmp > 0 and (1 - tmp**2) > 0
tip_loss_test(tmp) == FGt(tmp, FInt(0)) /\ FGt(FSub(FInt(1), Sq(tmp)), FInt(0))

\* tip_loss: the value returned and the line of the return statement reached.
\* The quotient by pi/2 is inside the arctan, as the code parenthesises it.
tip_loss(number_of_blades, fractional_radius, angle_of_rwind_) ==
    The({ IF tip_loss_test(tmp)
        THEN [val |-> FArctan(FDiv(FDiv(FSqrt(FSub(FInt(1), Sq(tmp))), tmp), Fx(HalfPiFx))),
              line |-> 128]
        ELSE [val |-> FInt(1), line |-> 130]
        : tmp \in {tip_loss_tmp(number_of_blades, fractional_radius, angle_of_rwind_)} })

\* local_thrust_coef of rotor_coefs (lines 150-153)
local_thrust_coef(axial_induc_factor_, angle_of_rwind_, local_solidity_, lift_coefficient_, drag_coefficient_) ==
    The({ FDiv(FMul(FMul(local_solidity_, Sq(FSub(FInt(1), axial_induc_factor_))),
                    FAdd(FMul(lift_coefficient_, c), FMul(drag_coefficient_, sn))),
               Sq(sn))
        : sn \in {FSin(angle_of_rwind_)}, c \in {FCos(angle_of_rwind_)} })

\* local_power_coef of rotor_coefs (lines 156-163), the factors multiplied
\* from the left in the order of the source
local_power_coef(angle_of_rwind_, tip_speed_ratio_, local_tsr_, num_stations, lift_coefficient_, drag_coefficient_, local_tip_loss_) ==
    The({ FMul(FMul(FMul(FMul(FMul(FMul(
              FDiv(FInt(8), FMul(tip_speed_ratio_, FInt(num_stations))),
              local_tip_loss_),
              Sq(sn)),
              FSub(c, FMul(local_tsr_, sn))),
              FAdd(sn, FMul(local_tsr_, c))),
              FSub(FInt(1), FMul(FDiv(drag_coefficient_, lift_coefficient_),
                                 FDiv(FInt(1), FTan(angle_of_rwind_))))),
              Sq(local_tsr_))
        : sn \in {FSin(angle_of_rwind_)}, c \in {FCos(angle_of_rwind_)} })

\* rotor_coefs: <<local_thrust_coef, local_torque_coef, local_power_coef>>
rotor_coefs(axial_induc_factor_, angular_induc_factor_, angle_of_rwind_, tip_speed_ratio_, local_tsr_, num_stations, local_solidity_, lift_coefficient_, drag_coefficient_, local_tip_loss_) ==
    The({ << local_thrust_coef(axial_induc_factor_, angle_of_rwind_, local_solidity_,
                               lift_coefficient_, drag_coefficient_),
             FDiv(power, local_tsr_),
             power >>
        : power \in {local_power_coef(angle_of_rwind_, tip_speed_ratio_, local_tsr_,
                                      num_stations, lift_coefficient_, drag_coefficient_,
                                      local_tip_loss_)} })

----------------------------------------------------------------------------
\* The arguments of one call of linear_rotor_analysis

\* Longest geometry table explored.
MaxStations == 3

\* Most executions of the while body followed at one station; the code has no
\* such limit (C10_AtMostTwoPasses shows the limit is never what stops the
\* loop).
MaxIter == 4

tip_speed_ratio == FInt(1)

number_blades == 3

pitch_0 == FInt(0)

blade_radius == FInt(1)

lift_coef_slope == Fx(5730)

lift_coef_intercept == Fx(300)

drag_coef_slope == Fx(10)

drag_coef_intercept == Fx(10)

\* Rows <<fradius, chord, twist>> a geometry table is drawn from: three whose
\* tip loss comes from the arctan branch (0.63, 1.08, and 1.003, within the
\* tolerance of 1), one whose tip loss is the fallback 1.0, one with a
\* negative discriminant, and malformed ones (zero radius, zero chord).
Rows ==
    { << Fx(900), Fx(300), Fx(500) >>,
      << Fx(750), Fx(500), Fx(500) >>,
      << Fx(775), Fx(500), Fx(500) >>,
      << Fx(500), Fx(300), Fx(100) >>,
      << Fx(500), Fx(300), Fx(-300) >>,
      << Fx(0), Fx(300), Fx(100) >>,
      << Fx(500), Fx(0), Fx(100) >> }

Tables == UNION { [1..n -> Rows] : n \in 0..MaxStations }

\* A local name no statement has assigned yet.
Unbound == [k |-> "unbound", s |-> 1, m |-> 0]

----------------------------------------------------------------------------
\* State of one call of linear_rotor_analysis

VARIABLES
    rct_matrix,               \* the geometry table (argument)
    ndarray,                  \* TRUE: the table is a numpy.ndarray (numpy.float64
                              \* entries); FALSE: a list of lists of Python floats
    pc,                       \* "for", "while", "done" (returned), "raised"
    j,                        \* stations started (the code's j + 1)
    linear_rotor_stats,
    total_power_coefficient,
    local_radius, local_chord, local_tsr, local_solidity, local_pitch,
    local_tip_loss, tip_loss_epsilon, old_local_tip_loss,
    q,                        \* <<q1, q2, q3>>
    angle_of_attack, angle_of_rwind, lift_coefficient, drag_coefficient,
    axial_induc_factor, angular_induc_factor,
    coefs,                    \* <<local_thrust, local_torque, local_power>>
    returned,                 \* the values of the return statement, in order
    raised_line,              \* line of the statement that raised, 0 if none
    tip_loss_line,            \* return statement the last tip_loss call reached
    iterations                \* executions of the while body at this station

geometry == << rct_matrix, ndarray >>

station == << local_radius, local_chord, local_tsr, local_solidity, local_pitch >>

loop == << local_tip_loss, tip_loss_epsilon, old_local_tip_loss, q, angle_of_attack,
           angle_of_rwind, lift_coefficient, drag_coefficient, axial_induc_factor,
           angular_induc_factor, tip_loss_line, iterations >>

results == << linear_rotor_stats, total_power_coefficient, coefs, returned >>

vars == << geometry, pc, j, station, loop, results, raised_line >>

Init ==
    /\ rct_matrix \in Tables
    /\ ndarray \in BOOLEAN
    /\ pc = "for"
    /\ j = 0
    /\ linear_rotor_stats = << >>
    /\ total_power_coefficient = FInt(0)
    /\ local_radius = Unbound
    /\ local_chord = Unbound
    /\ local_tsr = Unbound
    /\ local_solidity = Unbound
    /\ local_pitch = Unbound
    /\ local_tip_loss = Unbound
    /\ tip_loss_epsilon = Unbound
    /\ old_local_tip_loss = Unbound
    /\ q = << Unbound, Unbound, Unbound >>
    /\ angle_of_attack = Unbound
    /\ angle_of_rwind = Unbound
    /\ lift_coefficient = Unbound
    /\ drag_coefficient = Unbound
    /\ axial_induc_factor = Unbound
    /\ angular_induc_factor = Unbound
    /\ coefs = << Unbound, Unbound, Unbound >>
    /\ returned = << >>
    /\ raised_line = 0
    /\ tip_loss_line = 0
    /\ iterations = 0

\* A division of two Python floats raises ZeroDivisionError on a zero divisor;
\* with a numpy.float64 operand it yields inf or nan and a warning.
PyDivRaises(divisor) == ~ndarray /\ IsZero(divisor)

\* A variant of StationReset that carries the tip-loss estimate of the station
\* before into the next one.
StationNoReset == [local_tip_loss |-> local_tip_loss, tip_loss_epsilon |-> FInt(1)]

\* Lines 260-261: the loop state every station starts from.
StationReset == [local_tip_loss |-> FInt(1), tip_loss_epsilon |-> FInt(1)]

\* A variant of WhileCond with the tolerance 0.1.
WhileCondLoose(eps) == FGt(eps, Fx(SCALE \div 10))

\* Line 262: tip_loss_epsilon > 0.01
WhileCond(eps) == FGt(eps, Fx(SCALE \div 100))

\* A variant of Epsilon that measures the change from the initial estimate 1.
EpsilonFromInitial(new, old) == FAbs(FSub(new, FInt(1)))

\* Line 287: abs(local_tip_loss - old_local_tip_loss)
Epsilon(new, old) == FAbs(FSub(new, old))

\* A variant of Accumulate that assigns instead of adding.
AccumulateOverwrite(total, local_power) == local_power

\* Line 297: total_power_coefficient += local_power
Accumulate(total, local_power) == FAdd(total, local_power)

\* A variant of AppendStation that inserts at the front.
PrependStation(stats, rec) == << rec >> \o stats

\* Lines 300-304: linear_rotor_stats.append([...])
AppendStation(stats, rec) == Append(stats, rec)

\* Lines 265-287: one execution of the while body from tip-loss estimate tl:
\* the values the body assigns.  Each binding reads the ones below it, so the
\* statements of the source are listed from the last line up.
Body(tl) ==
    The({ The({ The({ The({
        [ q |-> qq,
          angle_of_attack |-> aoa,
          angle_of_rwind |-> rwind,
          lift_coefficient |-> cl,
          axial_induc_factor |-> axial,
          angular_induc_factor |-> calc_angular_factor(axial, rwind, local_tsr),
          drag_coefficient |-> FAdd(FMul(drag_coef_slope, aoa), drag_coef_intercept),
          old_local_tip_loss |-> tl,
          local_tip_loss |-> new.val,
          tip_loss_line |-> new.line,
          tip_loss_epsilon |-> Epsilon(new.val, tl) ]
        : axial \in {calc_axial_factor(tl, cl, rwind, local_solidity)},
          new \in {tip_loss(number_blades, rct_matrix[j][1], rwind)} })
        : rwind \in {FAdd(local_pitch, aoa)},
          cl \in {FAdd(FMul(aoa, lift_coef_slope), lift_coef_intercept)} })
        : aoa \in {calc_attack_angle(qq[1], qq[2], qq[3])} })
        : qq \in {q_terms(local_pitch, local_tsr, lift_coef_slope, lift_coef_intercept,
                          local_solidity)} })

\* Lines 244-261: the for loop takes the next row and derives the station's
\* values; the division of line 255 may raise.
ForNext ==
    /\ pc = "for"
    /\ j < Len(rct_matrix)
    /\ j' = j + 1
    /\ \E row \in {rct_matrix[j + 1]} :
       \E radius \in {FMul(row[1], blade_radius)} :
       \E divisor \in {FMul(FMul(FInt(2), Fx(PiFx)), radius)} :
          /\ local_radius' = radius
          /\ local_chord' = row[2]
          /\ local_tsr' = FMul(tip_speed_ratio, row[1])
          /\ IF PyDivRaises(divisor)
             THEN /\ pc' = "raised"
                  /\ raised_line' = 255
                  /\ UNCHANGED << local_solidity, local_pitch, local_tip_loss,
                                  tip_loss_epsilon, iterations >>
             ELSE /\ pc' = "while"
                  /\ local_solidity' = FDiv(FMul(FInt(number_blades), row[2]), divisor)
                  /\ local_pitch' = FAdd(row[3], pitch_0)
                  /\ local_tip_loss' = StationReset.local_tip_loss
                  /\ tip_loss_epsilon' = StationReset.tip_loss_epsilon
                  /\ iterations' = 0
                  /\ UNCHANGED raised_line
    /\ UNCHANGED << geometry, results, old_local_tip_loss, q, angle_of_attack,
                    angle_of_rwind, lift_coefficient, drag_coefficient,
                    axial_induc_factor, angular_induc_factor, tip_loss_line >>

\* Lines 262-287: the while test holds and the body runs once; the Python
\* float division inside q_terms (line 66) may raise.
LoopBody ==
    /\ pc = "while"
    /\ WhileCond(tip_loss_epsilon)
    /\ iterations < MaxIter
    /\ IF PyDivRaises(local_solidity)
       THEN /\ pc' = "raised"
            /\ raised_line' = 66
            /\ UNCHANGED loop
       ELSE \E b \in {Body(local_tip_loss)} :
               /\ q' = b.q
               /\ angle_of_attack' = b.angle_of_attack
               /\ angle_of_rwind' = b.angle_of_rwind
               /\ lift_coefficient' = b.lift_coefficient
               /\ axial_induc_factor' = b.axial_induc_factor
               /\ angular_induc_factor' = b.angular_induc_factor
               /\ drag_coefficient' = b.drag_coefficient
               /\ old_local_tip_loss' = b.old_local_tip_loss
               /\ local_tip_loss' = b.local_tip_loss
               /\ tip_loss_line' = b.tip_loss_line
               /\ tip_loss_epsilon' = b.tip_loss_epsilon
               /\ iterations' = iterations + 1
               /\ UNCHANGED << pc, raised_line >>
    /\ UNCHANGED << geometry, j, station, results >>

\* Lines 262, 289-304: the while test fails; the station's coefficients are
\* computed, its power is added to the total and its record is appended.
StationFinish ==
    /\ pc = "while"
    /\ ~WhileCond(tip_loss_epsilon)
    /\ \E c \in {rotor_coefs(axial_induc_factor, angular_induc_factor, angle_of_rwind,
                            tip_speed_ratio, local_tsr, Len(rct_matrix), local_solidity,
                            lift_coefficient, drag_coefficient, local_tip_loss)} :
          /\ coefs' = c
          /\ total_power_coefficient' = Accumulate(total_power_coefficient, c[3])
          /\ linear_rotor_stats' =
                AppendStation(linear_rotor_stats,
                              << local_radius, local_tip_loss, angle_of_attack,
                                 angle_of_rwind, lift_coefficient, drag_coefficient,
                                 axial_induc_factor, angular_induc_factor, c[3] >>)
    /\ pc' = "for"
    /\ UNCHANGED << geometry, j, station, loop, returned, raised_line >>

\* Lines 244, 308: the table is exhausted; return linear_rotor_stats.
Return ==
    /\ pc = "for"
    /\ j = Len(rct_matrix)
    /\ returned' = << linear_rotor_stats >>
    /\ pc' = "done"
    /\ UNCHANGED << geometry, j, station, loop, linear_rotor_stats,
                    total_power_coefficient, coefs, raised_line >>

Next == ForNext \/ LoopBody \/ StationFinish \/ Return

Spec == Init /\ [][Next]_vars

----------------------------------------------------------------------------
\* Properties

\* The convergence tolerance 0.01 of line 262
Tolerance == Fx(SCALE \div 100)

\* Fields of a station record (lines 300-304), in the order of the list
RecRadius == 1

RecTipLoss == 2

RecAngular == 8

RecPower == 9

\* The while loop of the station started last has exited and its record is
\* appended; the station's values are still in the local names.
StationDone == pc = "for" /\ j >= 1 /\ Len(linear_rotor_stats) = j

\* C1: linear_rotor_analysis returns both the per-station record sequence
\* and the total power coefficient.
C1_ReturnsStatsAndTotal ==
    pc = "done" =>
        /\ Len(returned) = 2
        /\ returned[1] = linear_rotor_stats
        /\ returned[2] = total_power_coefficient

\* C2: when the sweep completes on a table of n rows the result has exactly
\* n records and record i has the local radius of row i; records are only
\* ever added at the end, one per finished station.
C2_StationOrder ==
    /\ Len(linear_rotor_stats) = (IF pc = "while" \/ pc = "raised" THEN j - 1 ELSE j)
    /\ \A i \in 1..Len(linear_rotor_stats) :
          linear_rotor_stats[i][RecRadius] = FMul(rct_matrix[i][1], blade_radius)
    /\ pc = "done" =>
          /\ returned[1] = linear_rotor_stats
          /\ Len(returned[1]) = Len(rct_matrix)

C2_Witness ==
    /\ pc = "done"
    /\ Len(rct_matrix) >= 2
    /\ rct_matrix[1][1] # rct_matrix[2][1]
    /\ Len(returned[1]) = Len(rct_matrix)

\* Sum of the local power coefficients of a record sequence, added from the
\* left starting from 0.
RECURSIVE SumPower(_)
SumPower(stats) ==
    IF stats = << >> THEN FInt(0)
    ELSE FAdd(SumPower(SubSeq(stats, 1, Len(stats) - 1)), stats[Len(stats)][RecPower])

\* C3: in every state the running total power coefficient is the sum of the
\* local power coefficients of the records appended so far (0 for none).
C3_TotalIsSum == total_power_coefficient = SumPower(linear_rotor_stats)

C3_Witness ==
    /\ Len(linear_rotor_stats) >= 2
    /\ \A i \in 1..2 : /\ IsFin(linear_rotor_stats[i][RecPower])
                       /\ linear_rotor_stats[i][RecPower].m > 0

\* q1, q2, q3 are finite, q1 is not 0 and the discriminant is not negative.
NonDegenerate(qq) ==
    /\ \A i \in 1..3 : IsFin(qq[i])
    /\ ~IsZero(qq[1])
    /\ FLe(FInt(0), FSub(Sq(qq[2]), FMul(FMul(FInt(4), qq[1]), qq[3])))

\* q1*a^2 + q2*a + q3
Residual(qq, a) == FAdd(FAdd(FMul(qq[1], Sq(a)), FMul(qq[2], a)), qq[3])

\* Tolerance of the residual: 0.1, far above the rounding of this arithmetic
\* on the coefficients that occur.
ResidualTolerance == Fx(SCALE \div 10)

\* C4: for non-degenerate q-terms the angle of attack computed from them is a
\* root of q1*a^2 + q2*a + q3 = 0, within tolerance.
C4_AttackAngleIsRoot ==
    (iterations > 0 /\ NonDegenerate(q)) =>
        FLe(FAbs(Residual(q, angle_of_attack)), ResidualTolerance)

\* C5: the tip-loss factor computed by tip_loss, and stored in every station
\* record, lies in [0, 1].
C5_TipLossInUnitInterval ==
    /\ iterations > 0 => FLe(FInt(0), local_tip_loss) /\ FLe(local_tip_loss, FInt(1))
    /\ \A i \in 1..Len(linear_rotor_stats) :
          /\ FLe(FInt(0), linear_rotor_stats[i][RecTipLoss])
          /\ FLe(linear_rotor_stats[i][RecTipLoss], FInt(1))

\* The Prandtl argument of the tip_loss call made by the last while body.
LastTmp == tip_loss_tmp(number_blades, rct_matrix[j][1], angle_of_rwind)

\* C6: after every call of tip_loss: the value is exactly 1.0 (line 130) when
\* the Prandtl argument t is not a number, t <= 0 or 1 - t^2 <= 0; the arctan
\* branch (line 128) is taken only when t > 0 and 1 - t^2 > 0; the value is
\* never nan and the trailing return (line 132) is never reached.
C6_TipLossFallback ==
    (iterations > 0 /\ pc # "raised") =>
        /\ (IsNaN(LastTmp) \/ FLe(LastTmp, FInt(0)) \/ FLe(FSub(FInt(1), Sq(LastTmp)), FInt(0)))
              => (local_tip_loss = FInt(1) /\ tip_loss_line = 130)
        /\ tip_loss_line = 128
              => (FGt(LastTmp, FInt(0)) /\ FGt(FSub(FInt(1), Sq(LastTmp)), FInt(0)))
        /\ ~IsNaN(local_tip_loss)
        /\ tip_loss_line \in {128, 130}

C6_Witness ==
    /\ iterations > 0
    /\ pc # "raised"
    /\ IsFin(LastTmp)
    /\ FGt(LastTmp, FInt(1))
    /\ local_tip_loss = FInt(1)

\* C7: every station starts its loop from tip-loss estimate 1 and delta 1,
\* and rows with identical geometry have identical records whatever stations
\* precede them.
C7_StationIndependence ==
    /\ (pc = "while" /\ iterations = 0) =>
          (local_tip_loss = FInt(1) /\ tip_loss_epsilon = FInt(1))
    /\ \A a, b \in 1..Len(linear_rotor_stats) :
          rct_matrix[a] = rct_matrix[b] => linear_rotor_stats[a] = linear_rotor_stats[b]

C7_Witness ==
    /\ Len(linear_rotor_stats) >= 2
    /\ rct_matrix[1] = rct_matrix[2]
    /\ linear_rotor_stats[1] = linear_rotor_stats[2]
    /\ IsFin(linear_rotor_stats[2][RecTipLoss])
    /\ linear_rotor_stats[2][RecTipLoss] # FInt(1)

\* A row with fractional radius 0 or chord 0.
Malformed(row) == IsZero(row[1]) \/ IsZero(row[2])

\* C8: no malformed station halts the sweep: the call never raises, the
\* record of a malformed station holds a value that is not finite, and the
\* completed sweep returns one record per row.
C8_NeverHalts ==
    /\ pc # "raised"
    /\ \A i \in 1..Len(linear_rotor_stats) :
          Malformed(rct_matrix[i]) =>
             \E f \in 1..RecPower : ~IsFin(linear_rotor_stats[i][f])
    /\ pc = "done" => Len(returned[1]) = Len(rct_matrix)

\* The same restricted to tables that are a numpy.ndarray, which holds: the
\* divisions by zero then yield inf or nan instead of raising.
NdarrayNeverHalts ==
    ndarray =>
        /\ pc # "raised"
        /\ \A i \in 1..Len(linear_rotor_stats) :
              Malformed(rct_matrix[i]) =>
                 \E f \in 1..RecPower : ~IsFin(linear_rotor_stats[i][f])
        /\ pc = "done" => Len(returned[1]) = Len(rct_matrix)

NdarrayMalformedCompleted ==
    /\ ndarray
    /\ pc = "done"
    /\ Len(rct_matrix) >= 2
    /\ IsZero(rct_matrix[1][1])
    /\ ~Malformed(rct_matrix[2])
    /\ Len(returned[1]) = Len(rct_matrix)
    /\ IsInf(returned[1][1][RecAngular])

\* C9: when a station's loop has exited, the last delta is at most 0.01, and
\* one more execution of the body from that state moves the tip-loss estimate
\* by at most 0.01 and leaves the angle of attack, the relative-wind angle and
\* the lift and drag coefficients as they are.
C9_IdempotentAtConvergence ==
    StationDone =>
        /\ FLe(tip_loss_epsilon, Tolerance)
        /\ LET b == Body(local_tip_loss)
           IN /\ FLe(FAbs(FSub(b.local_tip_loss, local_tip_loss)), Tolerance)
              /\ b.angle_of_attack = angle_of_attack
              /\ b.angle_of_rwind = angle_of_rwind
              /\ b.lift_coefficient = lift_coefficient
              /\ b.drag_coefficient = drag_coefficient

C9_Witness ==
    /\ StationDone
    /\ iterations = 1
    /\ ~IsZero(tip_loss_epsilon)
    /\ FLe(tip_loss_epsilon, Tolerance)

\* C10: the while body runs at most twice at a station; the second pass
\* reproduces the tip loss of the first, so its delta is 0 and the loop test
\* fails; the limit MaxIter is never what stops the loop.
C10_AtMostTwoPasses ==
    /\ iterations <= 2
    /\ iterations = 2 =>
          /\ local_tip_loss = old_local_tip_loss
          /\ IsZero(tip_loss_epsilon)
          /\ ~WhileCond(tip_loss_epsilon)
    /\ (pc = "while" /\ WhileCond(tip_loss_epsilon)) => iterations < MaxIter

C10_Witness ==
    /\ iterations = 2
    /\ pc = "while"
    /\ tip_loss_line = 128

====
